---- MODULE Spec2Model ----
(***************************************************************************)
(* vtimer: the systray countdown timer.  The model covers the newer        *)
(* version of the program (timerLoop and menuLoop, src/README.md), two     *)
(* goroutines that talk over the unbuffered channels timerCommands and     *)
(* timerEvents.                                                            *)
(*                                                                         *)
(* The older version (startTimer and the controller goroutine of onReady,  *)
(* src/main.go) is modelled by the specification SpecOld, on the same      *)
(* configuration, positions, started flag, title and item variables and on *)
(* the variables counter, timerStarted, sleeps and clicks.                 *)
(*                                                                         *)
(* Time is counted in whole seconds.  The clock advances only while        *)
(* timerLoop sleeps; time.Sleep(time.Second) lasts at least one second,    *)
(* so one sleep advances the clock by 1..MaxSleep seconds.                 *)
(*                                                                         *)
(* An unbuffered channel operation is a rendezvous: a send completes in    *)
(* the same step as the matching receive.  A goroutine whose position is   *)
(* a send is blocked there until the other one reaches the receive.        *)
(***************************************************************************)
EXTENDS Integers, Sequences, FiniteSets, TLC

\* ------------------------------------------------------------------ bounds
\* Largest configured interval, in seconds.
MaxInterval == 2
\* The clock stops advancing at MaxClock (the sleep is then disabled).
MaxClock == 5
\* Longest time one time.Sleep(time.Second) takes, in seconds.
MaxSleep == 2
\* Largest number of clicks on Restart, Stop and Continue in the older
\* version, whose startTimer handles commands without sleeping.
MaxClicks == 3

\* --------------------------------------------------------------- constants
Commands == {"timerStopCommand", "timerContinueCommand", "timerRestartCommand"}
Events == {"timerOutEvent", "timerPausedEvent", "timerStartedEvent"}
DisplayCodes == {"h", "m", "s", "hm", "hms", "ms"}
\* Positions of menuLoop at which it is sending a command.
MenuSending == {"sendStop", "sendContinue", "sendRestart"}
\* Positions of timerLoop at which it is sending an event.
TimerSending == {"sendInit", "sendPaused", "sendContinued", "sendRestarted", "sendOut"}

VARIABLES
    \* configuration (timer struct)
    interval,        \* timer.interval, seconds
    displayCode,     \* the -display argument that chose timer.display
    \* timerLoop
    pcT,             \* position of timerLoop
    started, now, stopTime, restInterval, diff,
    title,           \* last text given to systray.SetTitle, <<>> when none yet
    notified,        \* number of notifyTimeout calls
    \* menuLoop
    pcM,             \* position of menuLoop
    intervalCounter,
    statsTitle,      \* the number shown by statsMenuItem's title
    stopEnabled, continueEnabled,
    \* environment
    clock,           \* time.Now(), seconds since the process started
    exited,          \* systray.Quit() was called
    \* history
    lastEvent,       \* last event menuLoop received, "none" before the first
    tickCmd,         \* command timerLoop handled in its current iteration, "none" if none
    prevCmd,         \* last command timerLoop handled in an earlier iteration
    tickEvents,      \* events timerLoop has sent in its current iteration
    pre,             \* timerLoop's variables at the top of its current iteration
    captured,        \* at the last Stop handled: was the timer running, and stopTime - clock
    outSent,         \* number of timerOutEvent sends completed
    tickTitles,      \* number of systray.SetTitle calls in the current iteration
    lastOut,         \* timerLoop has timed out and handled no command since
    outsSinceReset,  \* timerOutEvents menuLoop received since the last stats click
    \* the older version (SpecOld only)
    counter,         \* startTimer's counter, seconds
    timerStarted,    \* the controller goroutine's flag
    sleeps,          \* number of completed time.Sleep(time.Second) of startTimer
    clicks           \* number of clicks on Restart, Stop and Continue taken

confVars == <<interval, displayCode>>
timerVars == <<pcT, started, now, stopTime, restInterval, diff, title, notified>>
menuVars == <<pcM, intervalCounter, statsTitle, stopEnabled, continueEnabled>>
histVars == <<lastEvent, tickCmd, prevCmd, tickEvents, pre, captured>>
countVars == <<outSent, tickTitles, lastOut, outsSinceReset>>
oldVars == <<counter, timerStarted, sleeps, clicks>>
vars == <<confVars, timerVars, menuVars, clock, exited, histVars, countVars, oldVars>>

\* ------------------------------------------------------------ arithmetic
Abs(x) == IF x < 0 THEN -x ELSE x
\* Go's integer division and remainder truncate toward zero.
Quot(a, b) == IF a >= 0 THEN a \div b ELSE -((-a) \div b)
Rem(a, b) == a - b * Quot(a, b)

\* time.Duration.Round(m): to the nearest multiple of m, halves away from zero.
Round(d, m) ==
    LET r == Abs(Rem(d, m))
    IN IF d < 0
       THEN IF r + r < m THEN d + r ELSE d - m + r
       ELSE IF r + r < m THEN d - r ELSE d + m - r

\* timer.display: the numbers printed for a duration of d seconds.
Display(code, d) ==
    CASE code = "h" -> <<Quot(Round(d, 3600), 3600)>>
      [] code = "m" -> <<Quot(Round(d, 60), 60)>>
      [] code = "s" -> <<Round(d, 1)>>
      [] code = "hm" ->
            LET mins == Quot(Round(d, 60), 60)
            IN <<Quot(mins, 60), Rem(mins, 60)>>
      [] code = "hms" ->
            LET secs == Round(d, 1)
                mins == Quot(secs, 60)
                hours == Quot(mins, 60)
                mins2 == Rem(mins, 60)
            IN <<hours, mins2, secs - mins2 * 60 - hours * 3600>>
      [] code = "ms" ->
            LET secs == Round(d, 1)
            IN <<Quot(secs, 60), Rem(secs, 60)>>

\* The text of a title: a state symbol and the displayed duration.
Title(symbol, d) == <<symbol, Display(displayCode, d)>>

\* ------------------------------------------------------------------ Init
Init ==
    /\ interval \in 0..MaxInterval
    /\ displayCode \in DisplayCodes
    /\ pcT = "sendInit"
    /\ started = TRUE
    /\ now = 0
    /\ stopTime = interval
    /\ restInterval = 0
    /\ diff = 0
    /\ title = <<>>
    /\ notified = 0
    /\ pcM = "select"
    /\ intervalCounter = 0
    /\ statsTitle = 0
    /\ stopEnabled = TRUE
    /\ continueEnabled = TRUE
    /\ clock = 0
    /\ exited = FALSE
    /\ lastEvent = "none"
    /\ tickCmd = "none"
    /\ prevCmd = "none"
    /\ tickEvents = <<>>
    /\ pre = [started |-> TRUE, stopTime |-> interval, restInterval |-> 0, diff |-> 0,
              notified |-> 0]
    /\ captured = [running |-> FALSE, rest |-> 0]
    /\ outSent = 0
    /\ tickTitles = 0
    /\ lastOut = FALSE
    /\ outsSinceReset = 0
    /\ counter = 0
    /\ timerStarted = TRUE
    /\ sleeps = 0
    /\ clicks = 0

\* ------------------------------------------------------------- menuLoop
\* MenuOnEvent with the timerOutEvent case enabling Continue, as the older
\* controller does after a timeout.
MenuOnEventContinueAfterOut(ev) ==
    CASE ev = "timerOutEvent" ->
            /\ continueEnabled' = TRUE
            /\ stopEnabled' = FALSE
            /\ intervalCounter' = intervalCounter + 1
      [] ev = "timerStartedEvent" ->
            /\ stopEnabled' = TRUE
            /\ continueEnabled' = FALSE
            /\ UNCHANGED intervalCounter
      [] ev = "timerPausedEvent" ->
            /\ stopEnabled' = FALSE
            /\ continueEnabled' = TRUE
            /\ UNCHANGED intervalCounter

\* MenuOnEvent counting every timerStartedEvent as a passed interval too.
MenuOnEventCountsStarted(ev) ==
    CASE ev = "timerOutEvent" ->
            /\ continueEnabled' = FALSE
            /\ stopEnabled' = FALSE
            /\ intervalCounter' = intervalCounter + 1
      [] ev = "timerStartedEvent" ->
            /\ stopEnabled' = TRUE
            /\ continueEnabled' = FALSE
            /\ intervalCounter' = intervalCounter + 1
      [] ev = "timerPausedEvent" ->
            /\ stopEnabled' = FALSE
            /\ continueEnabled' = TRUE
            /\ UNCHANGED intervalCounter

\* MenuOnEvent with the timerPausedEvent case forgetting to disable Stop.
MenuOnEventStopStaysEnabled(ev) ==
    CASE ev = "timerOutEvent" ->
            /\ continueEnabled' = FALSE
            /\ stopEnabled' = FALSE
            /\ intervalCounter' = intervalCounter + 1
      [] ev = "timerStartedEvent" ->
            /\ stopEnabled' = TRUE
            /\ continueEnabled' = FALSE
            /\ UNCHANGED intervalCounter
      [] ev = "timerPausedEvent" ->
            /\ continueEnabled' = TRUE
            /\ UNCHANGED <<stopEnabled, intervalCounter>>

\* The switch on a received event (the case <-timerEvents of the select).
MenuOnEvent(ev) ==
    CASE ev = "timerOutEvent" ->
            /\ continueEnabled' = FALSE
            /\ stopEnabled' = FALSE
            /\ intervalCounter' = intervalCounter + 1
      [] ev = "timerStartedEvent" ->
            /\ stopEnabled' = TRUE
            /\ continueEnabled' = FALSE
            /\ UNCHANGED intervalCounter
      [] ev = "timerPausedEvent" ->
            /\ stopEnabled' = FALSE
            /\ continueEnabled' = TRUE
            /\ UNCHANGED intervalCounter

\* menuLoop, waiting in its select, receives event ev and returns to the
\* top of its loop, where the stats title is refreshed.
MenuReceive(ev) ==
    /\ pcM = "select"
    /\ MenuOnEvent(ev)
    /\ statsTitle' = intervalCounter'
    /\ lastEvent' = ev
    /\ outsSinceReset' = IF ev = "timerOutEvent" THEN outsSinceReset + 1 ELSE outsSinceReset
    /\ UNCHANGED pcM

\* MenuOnClick switching the items at the click, without waiting for the
\* event (what the older controller does with its timerStarted flag).
MenuOnClickSwitchesItems(sending) ==
    /\ pcM' = sending
    /\ stopEnabled' = (sending # "sendStop")
    /\ continueEnabled' = (sending = "sendStop")
    /\ UNCHANGED <<intervalCounter, statsTitle>>

\* What a click on the Restart, Stop or Continue item does in menuLoop's
\* select: the send of the command starts (it completes when timerLoop
\* receives it); nothing else is assigned.
MenuOnClick(sending) ==
    /\ pcM' = sending
    /\ UNCHANGED <<intervalCounter, statsTitle, stopEnabled, continueEnabled>>

\* A click reaches menuLoop only while it waits in its select.
MenuClick(sending) ==
    /\ ~exited
    /\ pcM = "select"
    /\ MenuOnClick(sending)
    /\ UNCHANGED <<confVars, oldVars, timerVars, clock, exited, histVars, countVars>>

ClickRestart == MenuClick("sendRestart")
ClickStop == MenuClick("sendStop")
ClickContinue == MenuClick("sendContinue")

\* case <-menu.statsMenuItem.ClickedCh
ClickStats ==
    /\ ~exited
    /\ pcM = "select"
    /\ intervalCounter' = 0
    /\ statsTitle' = 0
    /\ outsSinceReset' = 0
    /\ UNCHANGED <<pcM, stopEnabled, continueEnabled>>
    /\ UNCHANGED <<confVars, oldVars, timerVars, clock, exited, histVars>>
    /\ UNCHANGED <<outSent, tickTitles, lastOut>>

\* case <-menu.quitMenuItem.ClickedCh: systray.Quit() ends the process.
ClickQuit ==
    /\ ~exited
    /\ pcM = "select"
    /\ exited' = TRUE
    /\ UNCHANGED <<confVars, oldVars, timerVars, menuVars, clock, histVars, countVars>>

\* ------------------------------------------------------------ timerLoop
\* The command menuLoop is sending.
SentCommand ==
    CASE pcM = "sendStop" -> "timerStopCommand"
      [] pcM = "sendContinue" -> "timerContinueCommand"
      [] pcM = "sendRestart" -> "timerRestartCommand"

\* The initial send of timerStartedEvent, before the loop.
TimerInit ==
    /\ ~exited
    /\ pcT = "sendInit"
    /\ MenuReceive("timerStartedEvent")
    /\ pcT' = "select"
    /\ UNCHANGED <<started, now, stopTime, restInterval, diff, title, notified>>
    /\ UNCHANGED <<confVars, oldVars, clock, exited, tickCmd, prevCmd, tickEvents, pre, captured>>
    /\ UNCHANGED <<outSent, tickTitles, lastOut>>

\* The top of an iteration: the history of the iteration that starts.
TimerIteration(cmd) ==
    /\ now' = clock
    /\ tickCmd' = cmd
    /\ prevCmd' = IF tickCmd = "none" THEN prevCmd ELSE tickCmd
    /\ tickEvents' = <<>>
    /\ pre' = [started |-> started, stopTime |-> stopTime,
               restInterval |-> restInterval, diff |-> diff,
               notified |-> notified]

\* The select finds a command: menuLoop's send completes and menuLoop
\* returns to the top of its loop.
TimerReceive(cmd) ==
    /\ ~exited
    /\ pcT = "select"
    /\ pcM \in MenuSending
    /\ SentCommand = cmd
    /\ TimerIteration(cmd)
    /\ pcM' = "select"
    /\ statsTitle' = intervalCounter
    /\ UNCHANGED <<intervalCounter, stopEnabled, continueEnabled>>
    /\ lastOut' = FALSE
    /\ UNCHANGED <<confVars, oldVars, started, diff, notified, clock, exited, lastEvent>>
    /\ UNCHANGED <<outSent, outsSinceReset>>

\* case timerStopCommand, up to the send of timerPausedEvent.
StopCommand ==
    /\ restInterval' = stopTime - now'
    /\ title' = Title("timerStopSymbol", diff)
    /\ UNCHANGED stopTime

\* ContinueCommand keeping the old deadline, so that the time spent paused
\* is lost from the countdown.
ContinueCommandKeepsDeadline ==
    UNCHANGED <<stopTime, restInterval, title>>

\* case timerContinueCommand, up to the send of timerStartedEvent.
ContinueCommand ==
    /\ stopTime' = now' + restInterval
    /\ UNCHANGED <<restInterval, title>>

\* case timerRestartCommand, up to the send of timerStartedEvent.
RestartCommand ==
    /\ stopTime' = now' + interval
    /\ UNCHANGED <<restInterval, title>>

TimerStop ==
    /\ TimerReceive("timerStopCommand")
    /\ StopCommand
    /\ tickTitles' = 1
    /\ captured' = [running |-> started, rest |-> stopTime - clock]
    /\ pcT' = "sendPaused"

TimerContinue ==
    /\ TimerReceive("timerContinueCommand")
    /\ ContinueCommand
    /\ tickTitles' = 0
    /\ UNCHANGED captured
    /\ pcT' = "sendContinued"

TimerRestart ==
    /\ TimerReceive("timerRestartCommand")
    /\ RestartCommand
    /\ tickTitles' = 0
    /\ UNCHANGED captured
    /\ pcT' = "sendRestarted"

\* The select finds no command (default).
TimerDefault ==
    /\ ~exited
    /\ pcT = "select"
    /\ pcM \notin MenuSending
    /\ TimerIteration("none")
    /\ UNCHANGED captured
    /\ pcT' = "check"
    /\ UNCHANGED <<started, stopTime, restInterval, diff, title, notified>>
    /\ tickTitles' = 0
    /\ UNCHANGED <<confVars, oldVars, menuVars, clock, exited, lastEvent>>
    /\ UNCHANGED <<outSent, lastOut, outsSinceReset>>

\* The send of an event from inside a command case, and the assignment of
\* started that follows it.
TimerSend(at, ev, flag) ==
    /\ ~exited
    /\ pcT = at
    /\ MenuReceive(ev)
    /\ started' = flag
    /\ tickEvents' = Append(tickEvents, ev)
    /\ pcT' = "check"
    /\ UNCHANGED <<now, stopTime, restInterval, diff, title, notified>>
    /\ UNCHANGED <<confVars, oldVars, clock, exited, tickCmd, prevCmd, pre, captured>>
    /\ UNCHANGED <<outSent, tickTitles, lastOut>>

TimerSendPaused == TimerSend("sendPaused", "timerPausedEvent", FALSE)
TimerSendContinued == TimerSend("sendContinued", "timerStartedEvent", TRUE)
TimerSendRestarted == TimerSend("sendRestarted", "timerStartedEvent", TRUE)

\* TimerCheck comparing with diff >= 0, so that the timeout comes one tick late.
TimerCheckLateTimeout ==
    /\ ~exited
    /\ pcT = "check"
    /\ IF started
       THEN /\ diff' = stopTime - now
            /\ IF diff' >= 0
               THEN /\ title' = Title("timerContinueSymbol", diff')
                    /\ tickTitles' = tickTitles + 1
                    /\ pcT' = "sleep"
                    /\ UNCHANGED <<started, lastOut>>
               ELSE /\ started' = FALSE
                    /\ title' = Title("timerStopSymbol", interval)
                    /\ tickTitles' = tickTitles + 1
                    /\ lastOut' = TRUE
                    /\ pcT' = "sendOut"
       ELSE /\ pcT' = "sleep"
            /\ UNCHANGED <<started, diff, title, tickTitles, lastOut>>
    /\ UNCHANGED <<now, stopTime, restInterval, notified>>
    /\ UNCHANGED <<confVars, oldVars, menuVars, clock, exited, histVars>>
    /\ UNCHANGED <<outSent, outsSinceReset>>

\* TimerCheck showing the remainder diff, not the interval, on a timeout.
TimerCheckShowsRemainder ==
    /\ ~exited
    /\ pcT = "check"
    /\ IF started
       THEN /\ diff' = stopTime - now
            /\ IF diff' > 0
               THEN /\ title' = Title("timerContinueSymbol", diff')
                    /\ tickTitles' = tickTitles + 1
                    /\ pcT' = "sleep"
                    /\ UNCHANGED <<started, lastOut>>
               ELSE /\ started' = FALSE
                    /\ title' = Title("timerStopSymbol", diff')
                    /\ tickTitles' = tickTitles + 1
                    /\ lastOut' = TRUE
                    /\ pcT' = "sendOut"
       ELSE /\ pcT' = "sleep"
            /\ UNCHANGED <<started, diff, title, tickTitles, lastOut>>
    /\ UNCHANGED <<now, stopTime, restInterval, notified>>
    /\ UNCHANGED <<confVars, oldVars, menuVars, clock, exited, histVars>>
    /\ UNCHANGED <<outSent, outsSinceReset>>

\* TimerCheck going on to the notification without sending timerOutEvent (what
\* the older startTimer does).
TimerCheckSilentTimeout ==
    /\ ~exited
    /\ pcT = "check"
    /\ IF started
       THEN /\ diff' = stopTime - now
            /\ IF diff' > 0
               THEN /\ title' = Title("timerContinueSymbol", diff')
                    /\ tickTitles' = tickTitles + 1
                    /\ pcT' = "sleep"
                    /\ UNCHANGED <<started, lastOut>>
               ELSE /\ started' = FALSE
                    /\ title' = Title("timerStopSymbol", interval)
                    /\ tickTitles' = tickTitles + 1
                    /\ lastOut' = TRUE
                    /\ pcT' = "notify"
       ELSE /\ pcT' = "sleep"
            /\ UNCHANGED <<started, diff, title, tickTitles, lastOut>>
    /\ UNCHANGED <<now, stopTime, restInterval, notified>>
    /\ UNCHANGED <<confVars, oldVars, menuVars, clock, exited, histVars>>
    /\ UNCHANGED <<outSent, outsSinceReset>>

\* TimerCheck without the test of started: the deadline is checked on every
\* tick, paused or not.
TimerCheckIgnoresStarted ==
    /\ ~exited
    /\ pcT = "check"
    /\ IF TRUE
       THEN /\ diff' = stopTime - now
            /\ IF diff' > 0
               THEN /\ title' = Title("timerContinueSymbol", diff')
                    /\ tickTitles' = tickTitles + 1
                    /\ pcT' = "sleep"
                    /\ UNCHANGED <<started, lastOut>>
               ELSE /\ started' = FALSE
                    /\ title' = Title("timerStopSymbol", interval)
                    /\ tickTitles' = tickTitles + 1
                    /\ lastOut' = TRUE
                    /\ pcT' = "sendOut"
       ELSE /\ pcT' = "sleep"
            /\ UNCHANGED <<started, diff, title, tickTitles, lastOut>>
    /\ UNCHANGED <<now, stopTime, restInterval, notified>>
    /\ UNCHANGED <<confVars, oldVars, menuVars, clock, exited, histVars>>
    /\ UNCHANGED <<outSent, outsSinceReset>>

\* The if started block, up to the send of timerOutEvent.
TimerCheck ==
    /\ ~exited
    /\ pcT = "check"
    /\ IF started
       THEN /\ diff' = stopTime - now
            /\ IF diff' > 0
               THEN /\ title' = Title("timerContinueSymbol", diff')
                    /\ tickTitles' = tickTitles + 1
                    /\ pcT' = "sleep"
                    /\ UNCHANGED <<started, lastOut>>
               ELSE /\ started' = FALSE
                    /\ title' = Title("timerStopSymbol", interval)
                    /\ tickTitles' = tickTitles + 1
                    /\ lastOut' = TRUE
                    /\ pcT' = "sendOut"
       ELSE /\ pcT' = "sleep"
            /\ UNCHANGED <<started, diff, title, tickTitles, lastOut>>
    /\ UNCHANGED <<now, stopTime, restInterval, notified>>
    /\ UNCHANGED <<confVars, oldVars, menuVars, clock, exited, histVars>>
    /\ UNCHANGED <<outSent, outsSinceReset>>

\* TimerSendOut going to the sleep without calling notifyTimeout.
TimerSendOutSkipsNotify ==
    /\ ~exited
    /\ pcT = "sendOut"
    /\ MenuReceive("timerOutEvent")
    /\ tickEvents' = Append(tickEvents, "timerOutEvent")
    /\ outSent' = outSent + 1
    /\ pcT' = "sleep"
    /\ UNCHANGED <<started, now, stopTime, restInterval, diff, title, notified>>
    /\ UNCHANGED <<confVars, oldVars, clock, exited, tickCmd, prevCmd, pre, captured>>
    /\ UNCHANGED <<tickTitles, lastOut>>

\* timer.events <- timerOutEvent
TimerSendOut ==
    /\ ~exited
    /\ pcT = "sendOut"
    /\ MenuReceive("timerOutEvent")
    /\ tickEvents' = Append(tickEvents, "timerOutEvent")
    /\ outSent' = outSent + 1
    /\ pcT' = "notify"
    /\ UNCHANGED <<started, now, stopTime, restInterval, diff, title, notified>>
    /\ UNCHANGED <<confVars, oldVars, clock, exited, tickCmd, prevCmd, pre, captured>>
    /\ UNCHANGED <<tickTitles, lastOut>>

\* notifyTimeout(timer); beeep.Notify is taken to return no error (an error
\* panics and ends the process).
TimerNotify ==
    /\ ~exited
    /\ pcT = "notify"
    /\ notified' = notified + 1
    /\ pcT' = "sleep"
    /\ UNCHANGED <<started, now, stopTime, restInterval, diff, title>>
    /\ UNCHANGED <<confVars, oldVars, menuVars, clock, exited, histVars, countVars>>

\* time.Sleep(time.Second)
TimerSleep ==
    /\ ~exited
    /\ pcT = "sleep"
    /\ \E d \in 1..MaxSleep :
          /\ clock + d <= MaxClock
          /\ clock' = clock + d
    /\ pcT' = "select"
    /\ UNCHANGED <<started, now, stopTime, restInterval, diff, title, notified>>
    /\ UNCHANGED <<confVars, oldVars, menuVars, exited, histVars, countVars>>

\* ------------------------------------------------------- specifications
TimerStep ==
    \/ TimerInit
    \/ TimerStop
    \/ TimerContinue
    \/ TimerRestart
    \/ TimerDefault
    \/ TimerSendPaused
    \/ TimerSendContinued
    \/ TimerSendRestarted
    \/ TimerCheck
    \/ TimerSendOut
    \/ TimerNotify
    \/ TimerSleep

Next ==
    \/ TimerStep
    \/ ClickRestart
    \/ ClickStop
    \/ ClickContinue
    \/ ClickStats
    \/ ClickQuit

Spec == Init /\ [][Next]_vars

\* The user clicks only items that menuLoop has left enabled; Restart, the
\* stats item and Quit are never disabled.
EnabledClickStop == stopEnabled /\ ClickStop
EnabledClickContinue == continueEnabled /\ ClickContinue

NextEnabled ==
    \/ TimerStep
    \/ ClickRestart
    \/ EnabledClickStop
    \/ EnabledClickContinue
    \/ ClickStats
    \/ ClickQuit

SpecEnabled == Init /\ [][NextEnabled]_vars

\* The goroutine of timerLoop is scheduled whenever it can take a step; the
\* user is never obliged to click.
FairSpecEnabled == SpecEnabled /\ WF_vars(TimerStep)

\* No click is ever made and every sleep lasts exactly one second.
TimerSleepOneSecond == TimerSleep /\ clock' = clock + 1

NextNoCommands ==
    \/ TimerInit
    \/ TimerDefault
    \/ TimerCheck
    \/ TimerSendOut
    \/ TimerNotify
    \/ TimerSleepOneSecond

SpecNoCommands == Init /\ [][NextNoCommands]_vars

\* ------------------------------------------ the older version, main.go
\* The display functions of the older parseDisplay: no rounding.
DisplayOld(code, d) ==
    CASE code = "h" -> <<Quot(d, 3600)>>
      [] code = "m" -> <<Quot(d, 60)>>
      [] code = "s" -> <<d>>
      [] code = "hm" ->
            LET hours == Quot(d, 3600)
            IN <<hours, Quot(d, 60) - hours * 60>>
      [] code = "hms" ->
            LET hours == Quot(d, 3600)
                mins == Quot(d, 60) - hours * 60
            IN <<hours, mins, d - mins * 60 - hours * 3600>>
      [] code = "ms" ->
            LET mins == Quot(d, 60)
            IN <<mins, d - mins * 60>>

\* The variables only the newer version uses; they keep their initial values.
newVars == <<now, stopTime, restInterval, diff, intervalCounter, statsTitle, clock,
             histVars, countVars>>

\* startTimer is at the top of its loop and the controller goroutine, with
\* timerStarted true, has enabled Stop, disabled Continue and waits in its
\* select.
InitOld ==
    /\ interval \in 0..MaxInterval
    /\ displayCode \in DisplayCodes
    /\ pcT = "block"
    /\ started = TRUE
    /\ counter = interval
    /\ title = <<>>
    /\ notified = 0
    /\ pcM = "select"
    /\ timerStarted = TRUE
    /\ stopEnabled = TRUE
    /\ continueEnabled = FALSE
    /\ sleeps = 0
    /\ clicks = 0
    /\ exited = FALSE
    /\ now = 0 /\ stopTime = 0 /\ restInterval = 0 /\ diff = 0
    /\ intervalCounter = 0 /\ statsTitle = 0 /\ clock = 0
    /\ lastEvent = "none" /\ tickCmd = "none" /\ prevCmd = "none"
    /\ tickEvents = <<>>
    /\ pre = [started |-> TRUE, stopTime |-> 0, restInterval |-> 0, diff |-> 0,
              notified |-> 0]
    /\ captured = [running |-> FALSE, rest |-> 0]
    /\ outSent = 0 /\ tickTitles = 0 /\ lastOut = FALSE /\ outsSinceReset = 0

\* The if started block of startTimer: one second is counted down, and a
\* counter of zero stops the timer, sets the title "timeout" and notifies.
StartTimerBlock ==
    /\ ~exited
    /\ pcT = "block"
    /\ IF started
       THEN /\ counter' = IF counter > 0 THEN counter - 1 ELSE counter
            /\ IF counter' = 0
               THEN /\ started' = FALSE
                    /\ title' = <<"timeout">>
                    /\ notified' = notified + 1
               ELSE /\ title' = IF counter > 0
                                THEN <<"", DisplayOld(displayCode, counter)>>
                                ELSE title
                    /\ UNCHANGED <<started, notified>>
       ELSE UNCHANGED <<counter, started, title, notified>>
    /\ pcT' = "select"
    /\ UNCHANGED <<confVars, newVars, menuVars, exited, timerStarted, sleeps, clicks>>

\* The select of startTimer finds a command and goes to the next iteration
\* without sleeping; the controller's send completes, it assigns
\* timerStarted and, at the top of its loop, enables one of Stop and
\* Continue.
StartTimerReceive(cmd, flag) ==
    /\ ~exited
    /\ pcT = "select"
    /\ pcM \in MenuSending
    /\ SentCommand = cmd
    /\ started' = flag
    /\ counter' = IF cmd = "timerRestartCommand" THEN interval ELSE counter
    /\ pcT' = "block"
    /\ timerStarted' = flag
    /\ stopEnabled' = flag
    /\ continueEnabled' = ~flag
    /\ pcM' = "select"
    /\ UNCHANGED <<confVars, newVars, title, notified, exited, sleeps, clicks>>

StartTimerStop == StartTimerReceive("timerStopCommand", FALSE)
StartTimerContinue == StartTimerReceive("timerContinueCommand", TRUE)
StartTimerRestart == StartTimerReceive("timerRestartCommand", TRUE)

\* The select of startTimer finds no command (default) and sleeps a second.
StartTimerDefault ==
    /\ ~exited
    /\ pcT = "select"
    /\ pcM \notin MenuSending
    /\ pcT' = "sleep"
    /\ UNCHANGED <<confVars, newVars, menuVars, oldVars, started, title, notified, exited>>

StartTimerSleep ==
    /\ ~exited
    /\ pcT = "sleep"
    /\ sleeps < MaxClock
    /\ sleeps' = sleeps + 1
    /\ pcT' = "block"
    /\ UNCHANGED <<confVars, newVars, menuVars, started, title, notified, exited>>
    /\ UNCHANGED <<counter, timerStarted, clicks>>

\* A click on an enabled item is taken by the controller's select, which
\* starts sending the command.  (startTimer never sends on timer.events, so
\* the case <-timerEvents of this select is never taken.)
OnReadyClick(sending) ==
    /\ ~exited
    /\ pcM = "select"
    /\ clicks < MaxClicks
    /\ clicks' = clicks + 1
    /\ pcM' = sending
    /\ UNCHANGED <<confVars, newVars, timerVars, exited>>
    /\ UNCHANGED <<stopEnabled, continueEnabled, counter, timerStarted, sleeps>>

OnReadyClickRestart == OnReadyClick("sendRestart")
OnReadyClickStop == stopEnabled /\ OnReadyClick("sendStop")
OnReadyClickContinue == continueEnabled /\ OnReadyClick("sendContinue")

\* case <-quitMenuItem.ClickedCh
OnReadyClickQuit ==
    /\ ~exited
    /\ pcM = "select"
    /\ exited' = TRUE
    /\ UNCHANGED <<confVars, newVars, timerVars, oldVars>>
    /\ UNCHANGED <<pcM, stopEnabled, continueEnabled>>

NextOld ==
    \/ StartTimerBlock
    \/ StartTimerStop
    \/ StartTimerContinue
    \/ StartTimerRestart
    \/ StartTimerDefault
    \/ StartTimerSleep
    \/ OnReadyClickRestart
    \/ OnReadyClickStop
    \/ OnReadyClickContinue
    \/ OnReadyClickQuit

SpecOld == InitOld /\ [][NextOld]_vars

\* ---------------------------------------------------------------- claims
\* The iteration of timerLoop has reached its sleep.
TickEnded == pcT = "sleep"
\* The events sent so far in the current iteration.
TickEventSet == {tickEvents[i] : i \in 1..Len(tickEvents)}

\* C1: there is no reachable state in which timerLoop is blocked sending an
\* event on timer.events while menuLoop is blocked sending a command on
\* timerCommands.
NoMutualBlock ==
    ~(pcT \in TimerSending /\ pcM \in MenuSending)

\* C2: whenever menuLoop has accepted a Restart, Stop or Continue click and is
\* sending the command, timerLoop eventually receives it (menuLoop is back in
\* its select), as long as the clock has not reached the end of the model's
\* horizon.
AcceptedCommandIsHandled ==
    (pcM \in MenuSending) ~> (pcM = "select" \/ clock = MaxClock)

\* C3: once an event has been received, the enabled flags of Stop and
\* Continue are those the last received event sets, whatever was clicked
\* since: Started gives Stop only, Paused gives Continue only, TimedOut
\* gives neither.
FlagsMirrorLastEvent ==
    /\ lastEvent = "timerStartedEvent" => (stopEnabled /\ ~continueEnabled)
    /\ lastEvent = "timerPausedEvent" => (~stopEnabled /\ continueEnabled)
    /\ lastEvent = "timerOutEvent" => (~stopEnabled /\ ~continueEnabled)

\* C3 witness: a Restart click was accepted after a Paused event and the
\* flags are still those of Paused.
FlagsMirrorLastEventWitness ==
    /\ lastEvent = "timerPausedEvent"
    /\ pcM = "sendRestart"
    /\ ~stopEnabled /\ continueEnabled

\* C4 as stated: after the first Started event exactly one of Stop and
\* Continue is enabled.
ExactlyOneEnabled ==
    lastEvent # "none" => (stopEnabled # continueEnabled)

\* C4 amended: after the first Started event Stop and Continue are never
\* both enabled; exactly one is enabled while the last event received is
\* Started or Paused, and both are disabled while it is TimedOut.
ExactlyOneEnabledUnlessTimedOut ==
    lastEvent # "none" =>
        /\ ~(stopEnabled /\ continueEnabled)
        /\ (stopEnabled \/ continueEnabled) <=> (lastEvent # "timerOutEvent")

\* C4 witness: a TimedOut event was received and both items are disabled.
BothDisabledAfterTimedOut ==
    /\ lastEvent = "timerOutEvent"
    /\ ~stopEnabled /\ ~continueEnabled
    /\ intervalCounter = 1

\* C5: with clicks on enabled items only, while the last event received is
\* TimedOut both Stop and Continue are disabled, and the only event
\* timerLoop sends is the Started of an iteration that handled Restart.
DisabledFromTimedOutToRestart ==
    [][lastEvent = "timerOutEvent" =>
          /\ ~stopEnabled /\ ~continueEnabled
          /\ (tickEvents' # tickEvents /\ tickEvents' # <<>>) =>
                /\ lastEvent' = "timerStartedEvent"
                /\ tickCmd = "timerRestartCommand"]_vars

\* C5 witness: after a TimedOut event timerLoop has handled a Restart and is
\* about to send its Started event; both items are still disabled.
RestartAfterTimedOut ==
    /\ lastEvent = "timerOutEvent"
    /\ pcT = "sendRestarted"
    /\ ~stopEnabled /\ ~continueEnabled

\* C6: when a Stop is handled and the last command handled before it was a
\* Stop too, the iteration ends with started false and restInterval as the
\* first Stop left it.
SecondStopChangesNothing ==
    (TickEnded /\ tickCmd = "timerStopCommand" /\ prevCmd = "timerStopCommand") =>
        (~started /\ restInterval = pre.restInterval)

\* C7: a Continue handled while the timer is running leaves stopTime as it
\* was, and the iteration does not time out unless the deadline has passed.
ContinueWhileRunningChangesNothing ==
    (tickCmd = "timerContinueCommand" /\ pre.started) =>
        /\ stopTime = pre.stopTime
        /\ (TickEnded /\ pre.stopTime - now > 0) => started

\* C8: an iteration that handles Restart ends with the timer running, with
\* stopTime - now equal to the interval, and with a Started event sent.
RestartRunsFullInterval ==
    (TickEnded /\ tickCmd = "timerRestartCommand") =>
        /\ started
        /\ stopTime - now = interval
        /\ "timerStartedEvent" \in TickEventSet

\* C9: when Continue is handled after a Stop that was handled while the
\* timer was running, with no command in between, stopTime - now is the
\* remaining time that Stop captured.
ContinueResumesCaptured ==
    (/\ tickCmd = "timerContinueCommand"
     /\ prevCmd = "timerStopCommand"
     /\ captured.running) =>
        stopTime - now = captured.rest

\* C9 witness: such a Continue after at least two seconds paused, resuming a
\* countdown that is shorter than the interval and has not run out.
ContinueResumesCapturedWitness ==
    /\ tickCmd = "timerContinueCommand"
    /\ prevCmd = "timerStopCommand"
    /\ captured.running
    /\ TickEnded /\ started
    /\ stopTime - pre.stopTime >= 2
    /\ 0 < captured.rest /\ captured.rest < interval

\* C10: the title pushed when Stop is handled is the stop symbol with the
\* display of restInterval, the remaining time captured by that Stop.
StopTitleShowsCaptured ==
    (pcT = "sendPaused" /\ tickCmd = "timerStopCommand") =>
        title = Title("timerStopSymbol", restInterval)

\* C11: the number of notifyTimeout calls equals the number of timerOutEvent
\* sends, or is one less while timerLoop is between the send and the call.
NotifiedOncePerOutEvent ==
    \/ notified = outSent
    \/ (pcT = "notify" /\ notified + 1 = outSent)

\* C11 witness: the second timerOutEvent has been sent and its notification
\* is about to be made.
SecondOutEventBeforeNotify ==
    /\ pcT = "notify"
    /\ outSent = 2
    /\ notified = 1

\* C13: with an interval of at least one second, no command and sleeps of
\* one second, every tick before the interval has elapsed pushes the running
\* title and sends nothing; timerOutEvent is sent on the tick at which the
\* interval has elapsed, and from then on one event has been counted by
\* menuLoop and one notification made.
TimesOutAfterInterval ==
    interval >= 1 =>
        /\ (TickEnded /\ now < interval) =>
              /\ started
              /\ title = Title("timerContinueSymbol", interval - now)
              /\ outSent = 0 /\ notified = 0 /\ intervalCounter = 0
        /\ pcT \in {"sendOut", "notify"} => now = interval
        /\ (TickEnded /\ now >= interval) =>
              /\ ~started
              /\ outSent = 1 /\ notified = 1 /\ intervalCounter = 1

\* C13 witness: an interval of two seconds has timed out on the tick two
\* seconds after the start.
TimedOutAfterTwoSeconds ==
    /\ interval = 2
    /\ TickEnded /\ now = 2
    /\ "timerOutEvent" \in TickEventSet
    /\ intervalCounter = 1 /\ notified = 1

\* C15: from a timeout until timerLoop handles a command the title is the
\* stop symbol with the display of the full interval, and a tick that finds
\* the timer not started and handles no command pushes no title.
TimeoutTitleShowsInterval ==
    /\ lastOut => title = Title("timerStopSymbol", interval)
    /\ (TickEnded /\ tickCmd = "none" /\ ~pre.started) => tickTitles = 0

\* C15 witness: a tick of the timed-out timer, a negative remainder behind
\* it, with a display that tells the interval from the remainder.
TimeoutTitleShowsIntervalWitness ==
    /\ lastOut /\ diff < 0 /\ interval = 2 /\ displayCode = "ms"
    /\ TickEnded /\ tickCmd = "none" /\ ~pre.started
    /\ title = <<"timerStopSymbol", <<0, 2>>>>

\* C16: intervalCounter is the number of timerOutEvents received since the
\* last click on the stats item (or since the start).
CounterCountsOutEvents ==
    intervalCounter = outsSinceReset

\* C16 witness: two timeouts have been notified, a stats click came between
\* them and a command click after them; the counter is 1.
CounterCountsOutEventsWitness ==
    /\ notified = 2
    /\ intervalCounter = 1
    /\ pcM \in MenuSending

\* C17: when timerLoop sleeps and menuLoop waits in its select, an event
\* received, Stop is enabled exactly when started is true and Continue is
\* enabled only when started is false.
ItemsMirrorStartedWhenQuiescent ==
    (pcT = "sleep" /\ pcM = "select" /\ lastEvent # "none") =>
        /\ stopEnabled <=> started
        /\ continueEnabled => ~started

\* C17 witness: both loops are quiescent after a Stop; Continue is enabled
\* and the timer is not started.
QuiescentAfterStop ==
    /\ pcT = "sleep" /\ pcM = "select"
    /\ tickCmd = "timerStopCommand"
    /\ continueEnabled /\ ~stopEnabled /\ ~started

\* C19: a tick that handles no command while the last command handled is a
\* Stop sends no event, makes no notification, pushes no title, leaves
\* restInterval alone and leaves the timer not started.
PausedTickDoesNothing ==
    (TickEnded /\ tickCmd = "none" /\ prevCmd = "timerStopCommand") =>
        /\ tickEvents = <<>>
        /\ notified = pre.notified
        /\ tickTitles = 0
        /\ restInterval = pre.restInterval
        /\ ~started /\ ~pre.started

\* C19 witness: such a tick, of a timer stopped while running, after the
\* clock has passed the old deadline.
PausedTickPastDeadline ==
    /\ TickEnded /\ tickCmd = "none" /\ prevCmd = "timerStopCommand"
    /\ captured.running
    /\ now > stopTime
    /\ notified = 0

\* C12 (older version): once the countdown of an interval of at least one
\* second has reached zero and the notification has been made, no step makes
\* another notification as long as the counter is zero, that is, until a
\* Restart has been handled.
OneNotificationPerExpiry ==
    [][(interval >= 1 /\ counter = 0 /\ notified >= 1) => notified' = notified]_vars

\* C14 (older version): with an interval of at least one second and no click,
\* the title "timeout" is not set and no notification is made before as many
\* sleeps as the interval has seconds have completed.
NoTimeoutBeforeIntervalSleeps ==
    (interval >= 1 /\ clicks = 0 /\ (notified >= 1 \/ title = <<"timeout">>)) =>
        sleeps >= interval

\* C18 (older version): when the controller waits in its select and
\* startTimer sleeps, the controller's timerStarted equals startTimer's
\* started.
TimerStartedMirrorsStarted ==
    (pcT = "sleep" /\ pcM = "select") => timerStarted = started

====
